---- MODULE Spec2Model ----
(***************************************************************************)
(* The priority-class resource controller of the Kubernetes provider       *)
(* (kubernetes/resource_kubernetes_resource_priority_class.go): the        *)
(* Create / Read / Update / Delete / Exists handlers run by one caller     *)
(* against a shared object store.  Every store call is one step of the     *)
(* model, so that other agents of the store may act between two calls of   *)
(* one handler.                                                            *)
(***************************************************************************)
EXTENDS Integers, Sequences, FiniteSets, TLC

VARIABLES
    store,      \* the remote store: name -> object or Absent
    d,          \* schema.ResourceData: [id, cur]; cur is what d.Get answers
    pc,         \* the caller's position: "idle", or inside Create / Update
    loc,        \* locals of the current (or last) handler: out, priorityClass, retry state
    result,     \* what the last finished handler returned
    calls,      \* history: the store calls of the current (or last) handler
    otherActed, \* history: another agent has written the store
    intType     \* the Go type the schema library gives a TypeInt value

vars == <<store, d, pc, loc, result, calls, otherActed, intType>>

-----------------------------------------------------------------------------
(* Bounds of the model *)

\* Priority values range over 1..MaxValue.
MaxValue == 2

\* Poll intervals of the retry helper that fit in one minute.
PollsPerMinute == 2

Names        == {"high"}
Values       == 1..MaxValue
Descriptions == {"", "d"}
GenerateNames == {"", "hi"}

-----------------------------------------------------------------------------
(* Errors.  Every error value carries its Go type, its status code and the *)
(* text its Error() method prints (a sequence of string pieces).           *)

Nil == [type |-> "nil", code |-> 0, text |-> <<>>]

StatusError(code) ==
    [type |-> "StatusError", code |-> code,
     text |-> << CASE code = 404 -> "not found"
                   [] code = 409 -> "already exists"
                   [] OTHER      -> "internal error" >>]

NotFound      == StatusError(404)
AlreadyExists == StatusError(409)
ServerError   == StatusError(500)
TransportError == [type |-> "net.OpError", code |-> 0, text |-> <<"connection refused">>]

\* The failures any store call may answer whatever the store holds.
HardErrors == {ServerError, TransportError}

\* fmt.Errorf(prefix + "%s", err): a new error value holding the formatted text.
Errorf(prefix, err) ==
    [type |-> "errorString", code |-> 0, text |-> <<prefix>> \o err.text]

-----------------------------------------------------------------------------
(* Data model *)

\* The "metadata" block of the Flat Model.
FlatMetadata ==
    [name : Names \cup {""}, generate_name : GenerateNames]

\* The Flat Model: the values d.Get answers for the schema's fields.
FlatModels ==
    [metadata : FlatMetadata, value : Values,
     description : Descriptions, global_default : BOOLEAN]

\* A configuration names the object or asks the store to generate the name.
Configs ==
    {m \in FlatModels : (m.metadata.name = "") # (m.metadata.generate_name = "")}

\* d.Get on a resource that holds nothing yet answers each type's zero value.
ZeroFlat ==
    [metadata |-> [name |-> "", generate_name |-> ""],
     value |-> 0, description |-> "", global_default |-> FALSE]

\* meta_v1.ObjectMeta
ObjectMetas ==
    [Name : Names, GenerateName : GenerateNames]

\* api.PriorityClass
PriorityClasses ==
    [ObjectMeta : ObjectMetas, Value : Values,
     Description : Descriptions, GlobalDefault : BOOLEAN]

\* The zero api.PriorityClass: what a failed call hands back, and the mark of
\* a name the store holds nothing under.
Absent ==
    [ObjectMeta |-> [Name |-> "", GenerateName |-> ""],
     Value |-> 0, Description |-> "", GlobalDefault |-> FALSE]

\* ObjectMeta built from the "metadata" block of the Flat Model.
expandMetadata(m) ==
    [Name |-> m.name, GenerateName |-> m.generate_name]

\* Local ID of an object of a cluster-scoped kind: its name.
buildId(meta) == meta.Name

\* The "metadata" block written back by Read.
flattenMetadata(meta) ==
    [name |-> meta.Name, generate_name |-> meta.GenerateName]

-----------------------------------------------------------------------------
(* Patch documents *)

\* ReplaceOperation{Path, Value}
ReplaceOperation(path, value) == [op |-> "replace", path |-> path, value |-> value]

\* ops.MarshalJSON(): every value is sent as its JSON text.
MarshalJSON(ops) ==
    [i \in 1..Len(ops) |->
        [op |-> ops[i].op, path |-> ops[i].path, value |-> ToString(ops[i].value)]]

\* The value of type `domain` that a JSON text stands for.
Unmarshal(text, domain) == CHOOSE v \in domain : ToString(v) = text

\* One operation of a JSON patch applied to an object.
ApplyOp(obj, o) ==
    CASE o.path = "/value" ->
           [obj EXCEPT !.Value = Unmarshal(o.value, Values)]
      [] o.path = "/description" ->
           [obj EXCEPT !.Description = Unmarshal(o.value, Descriptions)]
      [] o.path = "/globalDefault" ->
           [obj EXCEPT !.GlobalDefault = Unmarshal(o.value, BOOLEAN)]
      [] OTHER -> obj

RECURSIVE ApplyPatch(_, _)
ApplyPatch(obj, data) ==
    IF data = <<>> THEN obj
    ELSE ApplyPatch(ApplyOp(obj, Head(data)), Tail(data))

-----------------------------------------------------------------------------
(* The object store (PriorityClasses() of the client set).  Each operator   *)
(* gives the set of outcomes [err, obj, store] a call may have.             *)

Outcome(err, obj, s) == [err |-> err, obj |-> obj, store |-> s]

Failures(s) == {Outcome(e, Absent, s) : e \in HardErrors}

Holds(s, name) == name \in Names /\ s[name] # Absent

\* Create(draft): the store keeps the draft under its name, or under a name
\* it generates when the draft has none.
StoreCreate(s, draft) ==
    LET names == IF draft.ObjectMeta.Name # "" THEN {draft.ObjectMeta.Name} ELSE Names
    IN  Failures(s) \cup
        { IF s[n] # Absent
            THEN Outcome(AlreadyExists, Absent, s)
            ELSE LET obj == [draft EXCEPT !.ObjectMeta.Name = n]
                 IN  Outcome(Nil, obj, [s EXCEPT ![n] = obj]) : n \in names }

\* Get(name): the object, or not-found.  A read may omit generateName
\* (kubernetes issue 44539).
StoreGet(s, name) ==
    Failures(s) \cup
    IF Holds(s, name)
      THEN {Outcome(Nil, s[name], s),
            Outcome(Nil, [s[name] EXCEPT !.ObjectMeta.GenerateName = ""], s)}
      ELSE {Outcome(NotFound, Absent, s)}

\* Patch(name, JSONPatchType, data): the patched object, or not-found.
StorePatch(s, name, data) ==
    Failures(s) \cup
    IF Holds(s, name)
      THEN LET obj == ApplyPatch(s[name], data)
           IN  {Outcome(Nil, obj, [s EXCEPT ![name] = obj])}
      ELSE {Outcome(NotFound, Absent, s)}

\* Delete(name): nothing left under the name, or not-found.
StoreDelete(s, name) ==
    Failures(s) \cup
    IF Holds(s, name)
      THEN {Outcome(Nil, Absent, [s EXCEPT ![name] = Absent])}
      ELSE {Outcome(NotFound, Absent, s)}

-----------------------------------------------------------------------------
(* schema.ResourceData *)

\* The Go type behind each field of the schema.  The Default of description
\* and of global_default shows theirs; "value" has no default, and the type
\* of a TypeInt value is the schema library's, fixed for a given build.
IntTypes == {"int", "int32"}

GoType(key) ==
    CASE key = "description"    -> "string"
      [] key = "global_default" -> "bool"
      [] key = "value"          -> intType

\* x.(T): a single-value type assertion panics unless x holds a T.
TypeAssertion(dynamicType, T) == dynamicType = T

\* d.GetOk: the value is set and is not the zero value of its type.
GetOk(v) == v # ""

\* d.HasChange(key), prior being the state and cur the planned values.
HasChange(prior, cur, key) ==
    CASE key = "value"          -> prior.value # cur.value
      [] key = "description"    -> prior.description # cur.description
      [] key = "global_default" -> prior.global_default # cur.global_default

-----------------------------------------------------------------------------
(* What a handler returns, and the history of its store calls *)

NoResult == [op |-> "none", err |-> Nil, ok |-> FALSE, panic |-> FALSE, elapsed |-> 0]

Return(op, err) == [NoResult EXCEPT !.op = op, !.err = err]

Panic(op) == [NoResult EXCEPT !.op = op, !.panic = TRUE]

NoLoc == [op |-> "none", out |-> Absent, priorityClass |-> Absent,
          elapsed |-> 0, lastErr |-> Nil]

\* One store call: the operation, the part of the handler that issued it,
\* the error and the Value of the object it answered, the patch it sent.
Call(op, by, o, data) ==
    [op |-> op, by |-> by, err |-> o.err, value |-> o.obj.Value,
     generateName |-> o.obj.ObjectMeta.GenerateName, data |-> data]

-----------------------------------------------------------------------------
(* resource.Retry: the convergence poller *)

\* Faulty variant: Create waits two minutes for convergence.
RetryTimeoutTwoMinutes == 2 * PollsPerMinute

\* resource.Retry(1*time.Minute, ...), counted in poll intervals.
RetryTimeout == 1 * PollsPerMinute

RetryableError(err)    == [kind |-> "Retryable", err |-> err]
NonRetryableError(err) == [kind |-> "NonRetryable", err |-> err]
RetrySuccess           == [kind |-> "nil", err |-> Nil]

\* The poller may call its function while the deadline has not passed.
MayPoll(elapsed) == elapsed <= RetryTimeout

-----------------------------------------------------------------------------
(* Read *)

\* Faulty variant: on not-found Read forgets the instance and returns no error.
ReadResultForgets(dd, o) ==
    IF o.err = NotFound
      THEN [d |-> [id |-> "", cur |-> ZeroFlat], err |-> Nil]
    ELSE IF o.err # Nil
      THEN [d |-> dd, err |-> o.err]
    ELSE [d |-> [dd EXCEPT !.cur =
                    [metadata       |-> flattenMetadata(o.obj.ObjectMeta),
                     value          |-> o.obj.Value,
                     description    |-> o.obj.Description,
                     global_default |-> o.obj.GlobalDefault]],
          err |-> Nil]

\* Faulty variant: Read takes generate_name as the store reports it.
ReadResultDrifts(dd, o) ==
    IF o.err # Nil
      THEN [d |-> dd, err |-> o.err]
      ELSE [d |-> [dd EXCEPT !.cur =
                      [metadata       |-> flattenMetadata(o.obj.ObjectMeta),
                       value          |-> o.obj.Value,
                       description    |-> o.obj.Description,
                       global_default |-> o.obj.GlobalDefault]],
            err |-> Nil]

\* Faulty variant: Read fills description from the wrong field of the object.
ReadResultWrongDescription(dd, o) ==
    IF o.err # Nil
      THEN [d |-> dd, err |-> o.err]
      ELSE [d |-> [dd EXCEPT !.cur =
                      [metadata       |-> flattenMetadata(o.obj.ObjectMeta),
                       value          |-> o.obj.Value,
                       description    |-> o.obj.ObjectMeta.GenerateName,
                       global_default |-> o.obj.GlobalDefault]],
            err |-> Nil]

\* Read, given the answer o of Get(d.Id()): the ResourceData it leaves and the
\* error it returns.
ReadResult(dd, o) ==
    IF o.err # Nil
      THEN [d |-> dd, err |-> o.err]
      ELSE LET prior == dd.cur.metadata.generate_name
               meta  == IF o.obj.ObjectMeta.GenerateName = "" /\ GetOk(prior)
                          THEN [o.obj.ObjectMeta EXCEPT !.GenerateName = prior]
                          ELSE o.obj.ObjectMeta
           IN  [d |-> [dd EXCEPT !.cur =
                          [metadata       |-> flattenMetadata(meta),
                           value          |-> o.obj.Value,
                           description    |-> o.obj.Description,
                           global_default |-> o.obj.GlobalDefault]],
                err |-> Nil]

\* resourceKubernetesPriorityClassRead, called by the orchestration layer.
Read ==
    /\ pc = "idle"
    /\ d.id # ""
    /\ \E o \in StoreGet(store, d.id) :
         LET r == ReadResult(d, o)
         IN  /\ d' = r.d
             /\ result' = Return("Read", r.err)
             /\ calls' = <<Call("Get", "Read", o, <<>>)>>
    /\ loc' = NoLoc
    /\ UNCHANGED <<store, pc, otherActed, intType>>

\* The Read that ends Create and Update.
FinalRead ==
    /\ pc = "read"
    /\ \E o \in StoreGet(store, d.id) :
         LET r == ReadResult(d, o)
         IN  /\ d' = r.d
             /\ result' = Return(loc.op, r.err)
             /\ calls' = Append(calls, Call("Get", "Read", o, <<>>))
    /\ pc' = "idle"
    /\ UNCHANGED <<store, loc, otherActed, intType>>

-----------------------------------------------------------------------------
(* Create *)

\* Faulty variant: the error of Create drops the cause.
CreateErrorWithoutCause(err) == Errorf("Failed to create priority class: ", Nil)

\* The error Create returns when store.Create failed.
CreateError(err) == Errorf("Failed to create priority class: ", err)

\* Faulty variant: Create leaves the Local ID unset until convergence is over.
CreateSetIdLate(dd, out) == dd

\* Faulty variant: Create takes the Local ID from the configuration.
CreateSetIdFromConfig(dd, out) == [dd EXCEPT !.id = dd.cur.metadata.name]

\* d.SetId(buildId(out.ObjectMeta)) once store.Create has answered.
CreateSetId(dd, out) == [dd EXCEPT !.id = buildId(out.ObjectMeta)]

\* Faulty variant: the retry function is content with any object it can read.
CreateRetryFuncAnyValue(o, priorityClass) ==
    IF o.err # Nil THEN NonRetryableError(o.err) ELSE RetrySuccess

\* Faulty variant: the retry function takes a failed read for a retryable condition.
CreateRetryFuncRetriesErrors(o, priorityClass) ==
    IF o.err # Nil THEN RetryableError(o.err)
    ELSE IF o.obj.Value = priorityClass.Value THEN RetrySuccess
    ELSE RetryableError(Errorf("Priority class doesn't match after creation.", Nil))

\* The function Create hands to resource.Retry, given the answer o of
\* Get(out.Name).
CreateRetryFunc(o, priorityClass) ==
    IF o.err # Nil THEN NonRetryableError(o.err)
    ELSE IF o.obj.Value = priorityClass.Value THEN RetrySuccess
    ELSE RetryableError(
           [type |-> "errorString", code |-> 0,
            text |-> <<"Priority class doesn't match after creation.",
                       "Expected: ", ToString(o.obj.Value),
                       "Given: ", ToString(priorityClass.Value)>>])

\* resourceKubernetesPriorityClassCreate up to the call of resource.Retry.
\* The ResourceData it is called with answers the configuration; a Create
\* that panics or returns with no Local ID leaves nothing to persist.
Create(cfg) ==
    /\ pc = "idle"
    /\ d.id = ""
    /\ LET dd == [d EXCEPT !.cur = cfg]
       IN  IF ~TypeAssertion(GoType("value"), "int32")
             THEN /\ result' = Panic("Create")
                  /\ d' = d
                  /\ calls' = <<>>
                  /\ loc' = NoLoc
                  /\ UNCHANGED <<store, pc>>
             ELSE LET priorityClass ==
                          [ObjectMeta    |-> expandMetadata(cfg.metadata),
                           Description   |-> cfg.description,
                           GlobalDefault |-> cfg.global_default,
                           Value         |-> cfg.value]
                  IN  \E o \in StoreCreate(store, priorityClass) :
                        /\ store' = o.store
                        /\ calls' = <<Call("Create", "Create", o, <<>>)>>
                        /\ loc' = [op |-> "Create", out |-> o.obj,
                                   priorityClass |-> priorityClass,
                                   elapsed |-> 0, lastErr |-> Nil]
                        /\ IF o.err # Nil
                             THEN /\ result' = Return("Create", CreateError(o.err))
                                  /\ d' = d
                                  /\ UNCHANGED pc
                             ELSE /\ d' = CreateSetId(dd, o.obj)
                                  /\ pc' = "retry"
                                  /\ result' = NoResult
    /\ UNCHANGED <<otherActed, intType>>

\* One call of the retry function, and what resource.Retry does with its
\* answer: go on after nil, give up on a non-retryable error, sleep one
\* interval and call again on a retryable one.
RetryPoll ==
    /\ pc = "retry"
    /\ MayPoll(loc.elapsed)
    /\ \E o \in StoreGet(store, loc.out.ObjectMeta.Name) :
         LET r == CreateRetryFunc(o, loc.priorityClass)
         IN  /\ calls' = Append(calls, Call("Get", "Retry", o, <<>>))
             /\ CASE r.kind = "nil" ->
                       /\ pc' = "read"
                       /\ UNCHANGED <<loc, result>>
                  [] r.kind = "NonRetryable" ->
                       /\ pc' = "idle"
                       /\ result' = [Return("Create", r.err) EXCEPT !.elapsed = loc.elapsed]
                       /\ UNCHANGED loc
                  [] r.kind = "Retryable" ->
                       /\ loc' = [loc EXCEPT !.elapsed = @ + 1, !.lastErr = r.err]
                       /\ UNCHANGED <<pc, result>>
    /\ UNCHANGED <<store, d, otherActed, intType>>

\* The deadline of resource.Retry has passed: Create returns the last
\* retryable error.
RetryTimedOut ==
    /\ pc = "retry"
    /\ ~MayPoll(loc.elapsed)
    /\ result' = [Return("Create", loc.lastErr) EXCEPT !.elapsed = loc.elapsed]
    /\ pc' = "idle"
    /\ UNCHANGED <<store, d, loc, calls, otherActed, intType>>

-----------------------------------------------------------------------------
(* Update *)

\* patchMetadata("metadata.0.", "/metadata/", d): the operations for the
\* labels and annotations that changed.  The Flat Model here carries the
\* identity fields of the metadata only, and a plan never changes those.
patchMetadata(prior, cur) == <<>>

\* Faulty variant: Update compares description before value.
UpdateOpsDescriptionFirst(prior, cur) ==
    LET ops0 == patchMetadata(prior, cur)
        descriptionOk == HasChange(prior, cur, "description")
                           => TypeAssertion(GoType("description"), "string")
        ops1 == IF HasChange(prior, cur, "description")
                  THEN Append(ops0, ReplaceOperation("/description", cur.description))
                  ELSE ops0
        valueOk == HasChange(prior, cur, "value")
                     => TypeAssertion(GoType("value"), "int32")
        ops2 == IF HasChange(prior, cur, "value")
                  THEN Append(ops1, ReplaceOperation("/value", cur.value))
                  ELSE ops1
        globalDefaultOk == HasChange(prior, cur, "global_default")
                             => TypeAssertion(GoType("global_default"), "string")
        ops3 == IF HasChange(prior, cur, "global_default")
                  THEN Append(ops2, ReplaceOperation("/globalDefault", cur.global_default))
                  ELSE ops2
    IN  [panic |-> ~(valueOk /\ descriptionOk /\ globalDefaultOk), ops |-> ops3]

\* The kind-specific fields in the order the schema declares them, and in
\* the order Update compares them.
SchemaFields == <<"description", "global_default", "value">>
UpdateFields == <<"value", "description", "global_default">>

\* The operations Update builds from the state (prior) and the plan (cur),
\* and whether one of its type assertions panics on the way.
UpdateOps(prior, cur) ==
    LET ops0 == patchMetadata(prior, cur)
        valueOk == HasChange(prior, cur, "value")
                     => TypeAssertion(GoType("value"), "int32")
        ops1 == IF HasChange(prior, cur, "value")
                  THEN Append(ops0, ReplaceOperation("/value", cur.value))
                  ELSE ops0
        descriptionOk == HasChange(prior, cur, "description")
                           => TypeAssertion(GoType("description"), "string")
        ops2 == IF HasChange(prior, cur, "description")
                  THEN Append(ops1, ReplaceOperation("/description", cur.description))
                  ELSE ops1
        globalDefaultOk == HasChange(prior, cur, "global_default")
                             => TypeAssertion(GoType("global_default"), "string")
        ops3 == IF HasChange(prior, cur, "global_default")
                  THEN Append(ops2, ReplaceOperation("/globalDefault", cur.global_default))
                  ELSE ops2
    IN  [panic |-> ~(valueOk /\ descriptionOk /\ globalDefaultOk), ops |-> ops3]

\* The error Update returns when store.Patch failed.
UpdateError(err) == Errorf("Failed to update priority class: ", err)

\* d.SetId(buildId(out.ObjectMeta)) once store.Patch has answered.
UpdateSetId(dd, out) == [dd EXCEPT !.id = buildId(out.ObjectMeta)]

\* The plans the orchestration layer may hand to Update, once the state of
\* the instance has been read: the identity of the object is kept, any other
\* field may change or stay.
Plans(prior) ==
    {m \in FlatModels : /\ m.metadata.name = prior.metadata.name
                        /\ m.metadata.generate_name = prior.metadata.generate_name}

\* resourceKubernetesPriorityClassUpdate up to its final Read.  The
\* ResourceData it is called with answers the plan over the state d.cur.
Update(desired) ==
    /\ pc = "idle"
    /\ d.id # ""
    /\ d.cur \in FlatModels
    /\ LET u  == UpdateOps(d.cur, desired)
           dd == [d EXCEPT !.cur = desired]
           data == MarshalJSON(u.ops)
       IN  IF u.panic
             THEN /\ result' = Panic("Update")
                  /\ d' = d
                  /\ calls' = <<>>
                  /\ loc' = NoLoc
                  /\ UNCHANGED <<store, pc>>
             ELSE \E o \in StorePatch(store, d.id, data) :
                    /\ store' = o.store
                    /\ calls' = <<Call("Patch", "Update", o, data)>>
                    /\ loc' = [NoLoc EXCEPT !.op = "Update", !.out = o.obj]
                    /\ IF o.err # Nil
                         THEN /\ result' = Return("Update", UpdateError(o.err))
                              /\ d' = dd
                              /\ UNCHANGED pc
                         ELSE /\ d' = UpdateSetId(dd, o.obj)
                              /\ pc' = "read"
                              /\ result' = NoResult
    /\ UNCHANGED <<otherActed, intType>>

-----------------------------------------------------------------------------
(* Delete and Exists *)

\* Faulty variant: Delete keeps the Local ID of the object it has deleted.
DeleteResultKeepsId(dd, err) == [d |-> dd, err |-> err]

\* Faulty variant: Delete forgets the Local ID whatever store.Delete answers.
DeleteResultClearsId(dd, err) == [d |-> [dd EXCEPT !.id = ""], err |-> err]

\* Delete, given the error of store.Delete(d.Id()): the ResourceData it
\* leaves and the error it returns.
DeleteResult(dd, err) ==
    IF err # Nil
      THEN [d |-> dd, err |-> err]
      ELSE [d |-> [dd EXCEPT !.id = ""], err |-> Nil]

\* Faulty variant: Delete calls store.Delete a second time when the first call fails.
DeleteRetried ==
    /\ pc = "idle"
    /\ d.id # ""
    /\ \E o1 \in StoreDelete(store, d.id) :
         \E o2 \in StoreDelete(o1.store, d.id) :
           LET again == o1.err # Nil
               o == IF again THEN o2 ELSE o1
               r == DeleteResult(d, o.err)
           IN  /\ store' = o.store
               /\ d' = r.d
               /\ result' = Return("Delete", r.err)
               /\ calls' = IF again
                              THEN <<Call("Delete", "Delete", o1, <<>>),
                                     Call("Delete", "Delete", o2, <<>>)>>
                              ELSE <<Call("Delete", "Delete", o1, <<>>)>>
    /\ loc' = NoLoc
    /\ UNCHANGED <<pc, otherActed, intType>>

\* resourceKubernetesPriorityClassDelete
Delete ==
    /\ pc = "idle"
    /\ d.id # ""
    /\ \E o \in StoreDelete(store, d.id) :
         LET r == DeleteResult(d, o.err)
         IN  /\ store' = o.store
             /\ d' = r.d
             /\ result' = Return("Delete", r.err)
             /\ calls' = <<Call("Delete", "Delete", o, <<>>)>>
    /\ loc' = NoLoc
    /\ UNCHANGED <<pc, otherActed, intType>>

\* Faulty variant: Exists takes every status error for not-found.
ExistsResultAnyStatus(err) ==
    IF err # Nil /\ err.type = "StatusError"
      THEN [ok |-> FALSE, err |-> Nil]
      ELSE [ok |-> TRUE, err |-> err]

\* Exists, given the error of store.Get(d.Id()): the pair it returns.
ExistsResult(err) ==
    IF err # Nil /\ err.type = "StatusError" /\ err.code = 404
      THEN [ok |-> FALSE, err |-> Nil]
      ELSE [ok |-> TRUE, err |-> err]

\* Faulty variant: Exists forgets the Local ID of an object it does not find.
ExistsClearsId ==
    /\ pc = "idle"
    /\ d.id # ""
    /\ \E o \in StoreGet(store, d.id) :
         LET r == ExistsResult(o.err)
         IN  /\ result' = [Return("Exists", r.err) EXCEPT !.ok = r.ok]
             /\ d' = IF r.ok THEN d ELSE [d EXCEPT !.id = ""]
             /\ calls' = <<Call("Get", "Exists", o, <<>>)>>
    /\ loc' = NoLoc
    /\ UNCHANGED <<store, pc, otherActed, intType>>

\* resourceKubernetesPriorityClassExists
Exists ==
    /\ pc = "idle"
    /\ d.id # ""
    /\ \E o \in StoreGet(store, d.id) :
         LET r == ExistsResult(o.err)
         IN  /\ result' = [Return("Exists", r.err) EXCEPT !.ok = r.ok]
             /\ calls' = <<Call("Get", "Exists", o, <<>>)>>
    /\ loc' = NoLoc
    /\ UNCHANGED <<store, d, pc, otherActed, intType>>

-----------------------------------------------------------------------------
(* The environment *)

\* schema.ImportStatePassthrough: the caller names an object to adopt.
Import(id) ==
    /\ pc = "idle"
    /\ d.id = ""
    /\ d' = [d EXCEPT !.id = id]
    /\ result' = Return("Import", Nil)
    /\ calls' = <<>>
    /\ loc' = NoLoc
    /\ UNCHANGED <<store, pc, otherActed, intType>>

\* An object as another agent of the store writes it.
OtherObject(n, v) ==
    [ObjectMeta |-> [Name |-> n, GenerateName |-> ""],
     Value |-> v, Description |-> "", GlobalDefault |-> FALSE]

\* Another agent creates, rewrites or deletes an object, at any moment.
OtherAgent(n) ==
    /\ \/ /\ store[n] = Absent
          /\ \E v \in Values : store' = [store EXCEPT ![n] = OtherObject(n, v)]
       \/ /\ store[n] # Absent
          /\ \E v \in Values \ {store[n].Value} :
               store' = [store EXCEPT ![n].Value = v]
       \/ /\ store[n] # Absent
          /\ store' = [store EXCEPT ![n] = Absent]
    /\ otherActed' = TRUE
    /\ UNCHANGED <<d, pc, loc, result, calls, intType>>

-----------------------------------------------------------------------------
(* The specification *)

Init ==
    /\ store \in [Names -> {Absent} \cup {OtherObject("high", v) : v \in Values}]
    /\ d = [id |-> "", cur |-> ZeroFlat]
    /\ pc = "idle"
    /\ loc = NoLoc
    /\ result = NoResult
    /\ calls = <<>>
    /\ otherActed = FALSE
    /\ intType \in IntTypes

Next ==
    \/ \E cfg \in Configs : Create(cfg)
    \/ RetryPoll
    \/ RetryTimedOut
    \/ FinalRead
    \/ Read
    \/ \E desired \in Plans(d.cur) : Update(desired)
    \/ Delete
    \/ Exists
    \/ \E id \in Names : Import(id)
    \/ \E n \in Names : OtherAgent(n)

Spec == Init /\ [][Next]_vars

-----------------------------------------------------------------------------
(* Vocabulary of the properties *)

Last(seq) == seq[Len(seq)]

\* A handler has returned (it is not between two of its store calls).
Returned(op) == pc = "idle" /\ result.op = op /\ ~result.panic

MutatingCalls == {i \in DOMAIN calls : calls[i].op \in {"Create", "Patch", "Delete"}}

\* The reads of the convergence poller.
PollReads == {i \in DOMAIN calls : calls[i].by = "Retry"}

\* A poll read answered an object whose Value is the one submitted.
Matches(c) == c.err = Nil /\ c.value = loc.priorityClass.Value

\* A poll read answered an object with another Value.
Mismatches(c) == c.err = Nil /\ c.value # loc.priorityClass.Value

-----------------------------------------------------------------------------
(* C1 *)

\* C1 (as claimed): when store.Delete answers not-found, Delete returns
\* success and clears the Local ID.
C1_DeleteNotFoundIsSuccess ==
    (Returned("Delete") /\ calls[1].err = NotFound)
        => (result.err = Nil /\ d.id = "")

-----------------------------------------------------------------------------
(* C2 *)

\* C2 (as claimed): an Update whose Patch Document is empty (no field
\* differs between state and plan) issues no store call at all.
C2_EmptyPatchNoStoreCall ==
    \A i \in DOMAIN calls :
        ~(calls[i].op = "Patch" /\ calls[i].data = <<>>)

-----------------------------------------------------------------------------
(* C3 *)

\* Create failed while the poller was at work: on its deadline or on a hard
\* error of a poll read.
CreateFailedInConvergence ==
    /\ Returned("Create")
    /\ result.err # Nil
    /\ calls[1].err = Nil
    /\ Last(calls).by = "Retry"

\* C3: the Local ID is that of the created object during the whole of the
\* convergence polling, from before its first read, and it still is when
\* Create fails in convergence.
C3_IdSetBeforeConvergence ==
    /\ pc = "retry" => (d.id # "" /\ d.id = loc.out.ObjectMeta.Name)
    /\ CreateFailedInConvergence => (d.id # "" /\ d.id = loc.out.ObjectMeta.Name)

\* Create timed out in convergence and the instance still names the object.
C3_Witness ==
    /\ CreateFailedInConvergence
    /\ result.elapsed > RetryTimeout
    /\ d.id = "high"

-----------------------------------------------------------------------------
(* C4 *)

\* The poller of Create has ended with success.
CreateConverged ==
    \/ pc = "read" /\ loc.op = "Create"
    \/ Returned("Create") /\ calls[1].err = Nil /\ Last(calls).by = "Read"

\* C4: Create gets past its poller, and so returns success, only if a poll
\* read issued after store.Create answered the submitted Value.
C4_SuccessOnlyAfterMatchingRead ==
    (CreateConverged \/ (Returned("Create") /\ result.err = Nil))
        => \E i \in PollReads : i > 1 /\ calls[i].op = "Get" /\ Matches(calls[i])

\* Create returned success after a stale read followed by a matching one.
C4_Witness ==
    /\ Returned("Create")
    /\ result.err = Nil
    /\ \E i \in PollReads : Mismatches(calls[i])
    /\ \E i \in PollReads : Matches(calls[i])

-----------------------------------------------------------------------------
(* C5 *)

\* Every poll read of the Create in hand answered a Value other than the
\* submitted one, and Create has returned.
NeverConverged ==
    /\ Returned("Create")
    /\ PollReads # {}
    /\ \A i \in PollReads : Mismatches(calls[i])

\* C5: the poller reads at most once per poll interval up to its deadline of
\* one minute and never after it; it can always take a step; and when no
\* read ever matches, Create returns the last mismatch as its error, one
\* poll interval after the deadline at the latest, with no further read.
C5_PollerStopsAtDeadline ==
    /\ Cardinality(PollReads) <= PollsPerMinute + 1
    /\ pc = "retry" =>
         /\ loc.elapsed <= PollsPerMinute + 1
         /\ Cardinality(PollReads) = loc.elapsed
         /\ ENABLED (RetryPoll \/ RetryTimedOut)
         /\ loc.elapsed > PollsPerMinute => ~ENABLED RetryPoll
    /\ NeverConverged =>
         /\ result.err # Nil
         /\ result.err = loc.lastErr
         /\ Head(result.err.text) = "Priority class doesn't match after creation."
         /\ result.elapsed <= PollsPerMinute + 1
         /\ Last(calls).by = "Retry"

\* Create gave up after a mismatching read at every interval up to the
\* deadline.
C5_Witness ==
    /\ NeverConverged
    /\ Cardinality(PollReads) = PollsPerMinute + 1
    /\ result.elapsed = PollsPerMinute + 1

-----------------------------------------------------------------------------
(* C6 *)

\* C6: a poll read that fails is the last store call of its Create, which
\* returns that very error without its final Read; a poll read that
\* mismatches is followed by another poll read, or the poller is still at
\* work and may read again while its deadline has not passed, or Create has
\* returned on the deadline.
C6_MismatchRetriesHardErrorAborts ==
    /\ \A i \in PollReads :
         /\ calls[i].err # Nil =>
              /\ i = Len(calls)
              /\ Returned("Create")
              /\ result.err = calls[i].err
         /\ Mismatches(calls[i]) =>
              \/ i < Len(calls) /\ calls[i + 1].by = "Retry"
              \/ i = Len(calls) /\ pc = "retry"
              \/ i = Len(calls) /\ Returned("Create") /\ result.elapsed > RetryTimeout
    /\ (pc = "retry" /\ MayPoll(loc.elapsed)) => ENABLED RetryPoll

\* Create returned the hard error of a poll read that followed a mismatch.
C6_Witness ==
    /\ Returned("Create")
    /\ Len(calls) = 3
    /\ Mismatches(calls[2])
    /\ calls[3].by = "Retry"
    /\ calls[3].err \in HardErrors
    /\ result.err = calls[3].err

-----------------------------------------------------------------------------
(* C7 *)

\* C7: Exists answers (false, nil) when its Get is not-found, (true, nil)
\* when its Get succeeds, and the error of its Get in every other case.
C7_ExistsMapsGetOutcome ==
    Returned("Exists") =>
        LET e == calls[1].err
            notFound == e.type = "StatusError" /\ e.code = 404
        IN  /\ notFound => (~result.ok /\ result.err = Nil)
            /\ (e # Nil /\ ~notFound) => (result.err = e /\ result.err # Nil)
            /\ e = Nil => (result.ok /\ result.err = Nil)

\* Exists met a store error that is a status error, but not not-found.
C7_Witness ==
    /\ Returned("Exists")
    /\ calls[1].err = ServerError
    /\ result.err = ServerError

-----------------------------------------------------------------------------
(* C8 *)

\* A step in which Read (alone, or as the end of Create or Update) returns
\* after a not-found Get.
ReadNotFoundStep ==
    /\ pc' = "idle"
    /\ pc = "read" \/ (pc = "idle" /\ result'.op = "Read")
    /\ Len(calls') > 0
    /\ Last(calls').by = "Read"
    /\ Last(calls').err = NotFound

\* C8: a Read whose Get is not-found returns the store's not-found status
\* error, which no other store failure equals, and leaves the ResourceData
\* (Flat Model and Local ID) as it was.
C8_ReadNotFoundIsDistinct ==
    [][ReadNotFoundStep =>
          /\ d' = d
          /\ result'.err.type = "StatusError"
          /\ result'.err.code = 404
          /\ result'.err \notin HardErrors]_vars

\* Read returned not-found for an instance whose Flat Model it had filled.
C8_Witness ==
    /\ Returned("Read")
    /\ calls[1].err = NotFound
    /\ result.err = NotFound
    /\ d.cur \in FlatModels

-----------------------------------------------------------------------------
(* C9 *)

\* The mutating store call of the handler that returned has failed.
MutatingCallFailed ==
    /\ pc = "idle"
    /\ result.op \in {"Create", "Update", "Delete"}
    /\ ~result.panic
    /\ calls # <<>>
    /\ 1 \in MutatingCalls
    /\ calls[1].err # Nil

-----------------------------------------------------------------------------
(* C10 *)

\* C10: a handler issues at most one mutating store call, as its first
\* call; the only store call it may repeat is the Get of the poller.
C10_NoMutatingCallRepeated ==
    /\ Cardinality(MutatingCalls) <= 1
    /\ MutatingCalls \subseteq {1}
    /\ Cardinality({i \in DOMAIN calls : calls[i].op = "Get" /\ calls[i].by # "Retry"}) <= 1
    /\ \A i \in PollReads : calls[i].op = "Get" /\ calls[1].op = "Create"

\* A Create that polled more than once around its single store.Create and
\* then failed in its final Read.
C10_Witness ==
    /\ Returned("Create")
    /\ Cardinality(PollReads) >= 2
    /\ Cardinality(MutatingCalls) = 1
    /\ Last(calls).by = "Read"
    /\ result.err # Nil

-----------------------------------------------------------------------------
(* C11 *)

\* A step in which Update is called and builds (or fails to build) its Patch
\* Document: d.cur is the state it is called over, d'.cur the plan when the
\* document was built.
UpdateStep ==
    /\ pc = "idle"
    /\ \/ pc' = "read" /\ loc'.op = "Update"
       \/ pc' = "idle" /\ store' = store /\ result'.op = "Update"

\* The kind-specific fields and the path of each in the remote object.
KindFields == {"value", "description", "global_default"}

PathOf(f) ==
    CASE f = "value"          -> "/value"
      [] f = "description"    -> "/description"
      [] f = "global_default" -> "/globalDefault"

Differs(m1, m2, f) ==
    CASE f = "value"          -> m1.value # m2.value
      [] f = "description"    -> m1.description # m2.description
      [] f = "global_default" -> m1.global_default # m2.global_default

\* The operations of a document at the path of field f.
OpsAt(data, f) == {i \in DOMAIN data : data[i].path = PathOf(f)}

\* The document holds one operation for each field that differs between m1
\* and m2, and nothing else.
ExactlyTheDifferences(data, m1, m2) ==
    /\ \A f \in KindFields :
         Cardinality(OpsAt(data, f)) = IF Differs(m1, m2, f) THEN 1 ELSE 0
    /\ Len(data) = Cardinality({f \in KindFields : Differs(m1, m2, f)})

\* C11 (as claimed): every Update builds a Patch Document, and the document
\* holds exactly one operation for each of value, description and
\* global_default that differs between the state and the plan, at that
\* field's path, and none for a field that is unchanged.  It is stated for
\* the builds in which a TypeInt value is an int32, where reading "value"
\* cannot panic.
C11_OneOperationPerChangedField ==
    [][(UpdateStep /\ intType = "int32") =>
          /\ ~result'.panic
          /\ Len(calls') = 1
          /\ ExactlyTheDifferences(calls'[1].data, d.cur, d'.cur)]_vars

-----------------------------------------------------------------------------
(* C12 *)

\* Create has ended and the mapping of its Flat Model to a draft had failed:
\* the value it read is not of the type the draft takes.
CreateMappingFailed ==
    /\ pc = "idle"
    /\ result.op = "Create"
    /\ ~TypeAssertion(GoType("value"), "int32")

\* C12 (as claimed): when the mapping of the Flat Model to a draft fails,
\* Create returns an error (a ValidationError) without any store call, and
\* the Local ID stays unset.
C12_MappingFailureIsValidationError ==
    CreateMappingFailed =>
        /\ ~result.panic
        /\ result.err # Nil
        /\ calls = <<>>
        /\ d.id = ""

-----------------------------------------------------------------------------
(* C13 *)

\* The step in which the final Read of Create succeeds, in a run where no
\* other agent has written the store.  Before it d.cur still answers the
\* submitted configuration.
CreateSucceedsAlone ==
    /\ pc = "read"
    /\ loc.op = "Create"
    /\ pc' = "idle"
    /\ result'.err = Nil
    /\ ~otherActed'

\* C13: with no other agent at work, a Create that succeeds leaves a Flat
\* Model whose value, description and global_default are the submitted ones,
\* and a Local ID that is the name of the object the store holds.
C13_CreateRoundTrip ==
    [][CreateSucceedsAlone =>
          /\ d'.cur.value = d.cur.value
          /\ d'.cur.description = d.cur.description
          /\ d'.cur.global_default = d.cur.global_default
          /\ d'.id # ""
          /\ Holds(store', d'.id)
          /\ d'.id = store'[d'.id].ObjectMeta.Name
          /\ d'.id = d'.cur.metadata.name]_vars

\* Create succeeded alone for a configuration with a description and a
\* generated name.
C13_Witness ==
    /\ Returned("Create")
    /\ result.err = Nil
    /\ ~otherActed
    /\ d.id = "high"
    /\ d.cur.description = "d"
    /\ d.cur.description = loc.priorityClass.Description
    /\ d.cur.metadata.generate_name = "hi"

-----------------------------------------------------------------------------
(* C14 *)

\* The field whose nested path an operation addresses, and the place of a
\* field in a sequence of fields.
FieldOf(path) == CHOOSE f \in KindFields : PathOf(f) = path
IndexIn(fields, f) == CHOOSE i \in DOMAIN fields : fields[i] = f

\* The operations of a Patch Document follow the order of fields.
InOrderOf(data, fields) ==
    \A i, j \in DOMAIN data :
        i < j => IndexIn(fields, FieldOf(data[i].path))
                   < IndexIn(fields, FieldOf(data[j].path))

\* C14 as stated: the operations of every Patch Document that Update sends
\* follow the order in which the schema declares the fields.
C14_SchemaDeclarationOrder ==
    \A i \in DOMAIN calls :
        calls[i].op = "Patch" => InOrderOf(calls[i].data, SchemaFields)

\* C14 amended: the operations of every Patch Document that Update sends
\* follow one fixed order, the order of Update's own HasChange blocks:
\* value, then description, then global_default.
C14_FixedUpdateOrder ==
    \A i \in DOMAIN calls :
        calls[i].op = "Patch" => InOrderOf(calls[i].data, UpdateFields)

\* Update sent a Patch Document with an operation for value and one for
\* description.
C14_Witness ==
    /\ Len(calls) = 1
    /\ calls[1].op = "Patch"
    /\ Len(calls[1].data) = 2
    /\ OpsAt(calls[1].data, "value") # {}
    /\ OpsAt(calls[1].data, "description") # {}

-----------------------------------------------------------------------------
(* C15 *)

\* The zero value of a kind-specific field.
ZeroOf(f) ==
    CASE f = "value"          -> 0
      [] f = "description"    -> ""
      [] f = "global_default" -> FALSE

\* The kind of operation asked for a field whose new value is v.
KindFor(f, v) == IF v = ZeroOf(f) THEN "remove" ELSE "replace"

\* C15: every operation of a Patch Document that Update sends is a remove
\* when the new value of its field is the zero value of the field, and a
\* replace otherwise.
C15_RemoveWhenZero ==
    [][(UpdateStep /\ Len(calls') = 1) =>
          \A i \in DOMAIN calls'[1].data :
              LET f == FieldOf(calls'[1].data[i].path)
              IN  calls'[1].data[i].op = KindFor(f, d'.cur[f])]_vars

-----------------------------------------------------------------------------
(* C16 *)

\* A step in which Read, called on its own or at the end of Create or
\* Update, returns.
ReadStep ==
    /\ store' = store
    /\ pc' = "idle"
    /\ \/ pc = "read"
       \/ pc = "idle" /\ result'.op = "Read"

\* C16: a Read that got the object keeps the prior generate_name when the
\* store reports it empty and the prior one is set, takes the reported one
\* when it is not empty, and so leaves generate_name as it was whenever the
\* store holds the value the Flat Model had.
C16_GenerateNameKept ==
    [][(ReadStep /\ Last(calls').err = Nil) =>
          LET reported == Last(calls').generateName
              prior    == d.cur.metadata.generate_name
              now      == d'.cur.metadata.generate_name
          IN  /\ (reported = "" /\ prior # "") => now = prior
              /\ reported # "" => now = reported
              /\ prior = store[d.id].ObjectMeta.GenerateName => now = prior]_vars

\* Read got an object whose generateName the store left out, and the Flat
\* Model still holds the configured one.
C16_Witness ==
    /\ Returned("Read")
    /\ result.err = Nil
    /\ Last(calls).generateName = ""
    /\ store[d.id].ObjectMeta.GenerateName = "hi"
    /\ d.cur.metadata.generate_name = "hi"

-----------------------------------------------------------------------------
(* C17 *)

\* A step in which store.Create or store.Patch succeeds: the handler goes on
\* to its reads, holding in loc.out the object the store returned.
MutatingCallSucceeds == pc = "idle" /\ pc' \in {"retry", "read"}

\* A step of Update, or of the Read that ends it.
UpdateOrItsRead == UpdateStep \/ (pc = "read" /\ pc' = "idle" /\ loc.op = "Update")

\* C17: once store.Create or store.Patch has succeeded the Local ID is the
\* name of the object the store returned, the Read that follows gets the
\* object of that name, and no step of an Update changes the Local ID.
C17_IdRecomputedAndStable ==
    [][/\ MutatingCallSucceeds => d'.id = loc'.out.ObjectMeta.Name
       /\ (pc = "read" /\ pc' = "idle" /\ result'.err = Nil) =>
              /\ d'.id = loc.out.ObjectMeta.Name
              /\ d'.cur.metadata.name = loc.out.ObjectMeta.Name
       /\ UpdateOrItsRead => d'.id = d.id]_vars

\* An Update succeeded on an object whose name the store generated.
C17_Witness ==
    /\ Returned("Update")
    /\ result.err = Nil
    /\ d.cur.metadata.generate_name = "hi"
    /\ d.id = "high"
    /\ d.id = loc.out.ObjectMeta.Name

-----------------------------------------------------------------------------
(* C18 *)

\* A step in which Exists returns.
ExistsStep ==
    /\ pc = "idle"
    /\ result'.op = "Exists"
    /\ result' # result

\* C18: whatever its Get answers, Exists leaves the Local ID, the Flat Model
\* and the store as they were, and its only store call is one Get.
C18_ExistsSideEffectFree ==
    [][ExistsStep =>
          /\ d' = d
          /\ store' = store
          /\ Len(calls') = 1
          /\ calls'[1].op = "Get"]_vars

\* Exists answered false for an instance whose object is gone, and the
\* instance still holds its Local ID and its Flat Model.
C18_Witness ==
    /\ Returned("Exists")
    /\ result.err = Nil
    /\ ~result.ok
    /\ d.id = "high"
    /\ d.cur \in FlatModels
    /\ ~Holds(store, d.id)

-----------------------------------------------------------------------------
(* C19 *)

\* A step in which Create, Update or Delete returns after its mutating store
\* call has failed, the not-found answer to Delete left aside.
MutatingCallFails ==
    /\ pc = "idle"
    /\ pc' = "idle"
    /\ <<d', result', calls'>> # <<d, result, calls>>
    /\ result'.op \in {"Create", "Update", "Delete"}
    /\ ~result'.panic
    /\ calls' # <<>>
    /\ calls'[1].op \in {"Create", "Patch", "Delete"}
    /\ calls'[1].err # Nil
    /\ ~(calls'[1].op = "Delete" /\ calls'[1].err = NotFound)

\* The Flat Model m is the one the Patch Document data was built from, over
\* the state prior: it differs from prior where data has an operation, there
\* it holds the value of the operation, and nowhere else.
IsThePlanOf(m, prior, data) ==
    /\ m.metadata = prior.metadata
    /\ ExactlyTheDifferences(data, prior, m)
    /\ \A i \in DOMAIN data : data[i].value = ToString(m[FieldOf(data[i].path)])

\* C19: when store.Create, store.Patch or store.Delete fails, the handler
\* returns an error, the Local ID is what it was, the Flat Model is the one
\* the handler held before the call (the state for Create and Delete, the
\* plan for Update), and the failed call is the handler's only store call.
C19_FailedCallLeavesInstance ==
    [][MutatingCallFails =>
          /\ result'.err # Nil
          /\ d'.id = d.id
          /\ IF result'.op = "Update"
               THEN IsThePlanOf(d'.cur, d.cur, calls'[1].data)
               ELSE d'.cur = d.cur
          /\ Len(calls') = 1]_vars

\* Update returned after store.Patch refused a document of one operation.
C19_Witness ==
    /\ Returned("Update")
    /\ result.err # Nil
    /\ Len(calls) = 1
    /\ calls[1].op = "Patch"
    /\ calls[1].err = ServerError
    /\ Len(calls[1].data) = 1
    /\ d.id = "high"

-----------------------------------------------------------------------------
(* C20 *)

\* The instance has a Local ID and the store holds the object it names.
Present == d.id # "" /\ Holds(store, d.id)

\* The step in which Create returns success.
CreateReturnsSuccess ==
    /\ pc = "read"
    /\ loc.op = "Create"
    /\ pc' = "idle"
    /\ result'.err = Nil

\* The step in which Delete returns success.
DeleteReturnsSuccess ==
    /\ pc = "idle"
    /\ d.id # ""
    /\ result'.op = "Delete"
    /\ result'.err = Nil

\* What Exists answers for the name id, over the store s, when Get fails
\* with no hard error.
ExistsAnswers(s, id) ==
    {ExistsResult(o.err).ok : o \in {g \in StoreGet(s, id) : g.err \notin HardErrors}}

\* C20: as long as no other agent writes the store, the instance is present
\* once Create has returned success, stays present under the same Local ID
\* through every step but a successful Delete, and Exists answers true for
\* it; a successful Delete empties the Local ID and takes the object out of
\* the store, and Exists answers false for the former ID.
C20_Lifecycle ==
    [][~otherActed' =>
          /\ CreateReturnsSuccess => Present'
          /\ (Present /\ ~DeleteReturnsSuccess) => (Present' /\ d'.id = d.id)
          /\ (Present /\ ExistsStep) => result'.ok
          /\ DeleteReturnsSuccess =>
                /\ d'.id = ""
                /\ ~Holds(store', d.id)
                /\ ExistsAnswers(store', d.id) = {FALSE}
          /\ (ExistsStep /\ ~Holds(store, d.id) /\ result'.err = Nil) =>
                ~result'.ok]_vars

\* Delete returned success for an object this instance had created, with no
\* other agent at work.
C20_Witness ==
    /\ Returned("Delete")
    /\ result.err = Nil
    /\ ~otherActed
    /\ d.id = ""
    /\ d.cur.description = "d"
    /\ \A n \in Names : ~Holds(store, n)

====
